---- MODULE Spec2Model ----
(***************************************************************************)
(* A state-machine model of the ResizeObserver polyfill: the singleton     *)
(* ResizeObserverController (scheduler), the per-consumer                  *)
(* ResizeObserverSPI instances and their ResizeObservation records.        *)
(*                                                                         *)
(* The host runs one thread.  Consumer code (top-level code or the body of *)
(* a ResizeObserver callback) calls observe / unobserve / disconnect and   *)
(* changes the layout; the host delivers signals and runs timers.  A       *)
(* refresh cycle (updateObservers_) is cut into one step per instance of   *)
(* the gather pass and one step per instance of the broadcast pass; while  *)
(* a callback runs (pc = "callback") the consumer's calls are interleaved. *)
(***************************************************************************)
EXTENDS Integers, Sequences, FiniteSets, TLC

(***************************************************************************)
(* Bounds of the model.                                                    *)
(***************************************************************************)
MaxDim == 2        \* widths and heights range over 0..MaxDim
MaxPos == 1        \* the left offset of a content rectangle ranges over 0..MaxPos
MaxOps == 3        \* number of observe/unobserve/disconnect calls in a run
MaxResizes == 1    \* number of layout changes in a run
MaxThrows == 1     \* number of callbacks that throw in a run
MaxCalls == 2      \* the history counts callback invocations up to MaxCalls

Instances == {"A", "B"}          \* the ResizeObserverSPI objects
Targets == {"t1", "t2"}          \* the DOM elements
NotAnElement == "notAnElement"   \* a value that is no Element
NoTarget == "none"

VARIABLES
    host,          \* capabilities of the host environment (fixed in a run)
    elementRect,   \* the layout: the content rectangle of every element
    dom,           \* the listeners and observers installed in the host
    controller,    \* the ResizeObserverController singleton
    scheduled,     \* throttle: an execution of the refresh body is pending
    spi,           \* the ResizeObserverSPI objects
    pc,            \* "idle", or the position inside updateObservers_
    idx,           \* index of the instance the running pass is at
    activeObservers, \* the array filter() builds in updateObservers_
    cycleObservers,  \* history: observers_ as it was when the cycle began
    gathered,      \* history: instances whose gatherActive ran in this cycle
    visited,       \* history: instances whose broadcastActive ran in this cycle
    cbResized,     \* history: <<observer, target>>: the observer's callback
                   \*   resized the target in the last execution of the body
    call,          \* history: the callback invocation in progress
    epoch,         \* history: the callbacks invoked since the last change
    last,          \* history: the last step taken
    ops, resizes, throws   \* budget counters

vars == <<host, elementRect, dom, controller, scheduled, spi, pc, idx,
          activeObservers, cycleObservers, gathered, visited, cbResized,
          call, epoch, last, ops, resizes, throws>>

(***************************************************************************)
(* Sequence helpers.                                                       *)
(***************************************************************************)
Range(s) == {s[k] : k \in 1..Len(s)}

\* Array.prototype.indexOf, 0-based, -1 when absent.
indexOf(s, x) ==
    IF \E k \in 1..Len(s) : s[k] = x
    THEN (CHOOSE k \in 1..Len(s) : s[k] = x /\ \A j \in 1..(k-1) : s[j] # x) - 1
    ELSE -1

\* Array.prototype.splice(index, 1), index 0-based.
splice1(s, index) ==
    [k \in 1..(Len(s) - 1) |-> IF k <= index THEN s[k] ELSE s[k + 1]]

NoDuplicates(s) == \A j, k \in 1..Len(s) : j # k => s[j] # s[k]

(***************************************************************************)
(* Rectangles.                                                             *)
(***************************************************************************)
createRectInit(x, y, width, height) ==
    [x |-> x, y |-> y, width |-> width, height |-> height]

\* DOMRectReadOnly built for an entry: the edges are computed from the init.
createReadOnlyRect(r) ==
    [x |-> r.x, y |-> r.y, width |-> r.width, height |-> r.height,
     top |-> r.y, left |-> r.x, right |-> r.x + r.width,
     bottom |-> r.y + r.height]

Rects == {createRectInit(x, 0, w, h) : x \in 0..MaxPos, w \in 0..MaxDim, h \in 0..MaxDim}

\* The layout when the run begins: t1 is 1 by 1, t2 is 0 by 0 (not rendered).
InitialLayout ==
    [t \in Targets |-> IF t = "t1" THEN createRectInit(0, 0, 1, 1)
                                   ELSE createRectInit(0, 0, 0, 0)]

\* A layout change gives an element another width, height or left offset.
Relayouts(r) ==
    {q \in Rects : /\ q # r
                   /\ Cardinality({f \in {"x", "width", "height"} : q[f] # r[f]}) = 1}

\* GeometrySource: the content rectangle of an element is read off the layout.
getContentRect(t) == elementRect[t]


(***************************************************************************)
(* Host environment.  isBrowser is utils/isBrowser; hasElement is the test *)
(* "typeof Element !== 'undefined'" of observe/unobserve.                  *)
(***************************************************************************)
HostProfiles ==
    { [isBrowser |-> TRUE,  hasElement |-> TRUE,  mutationObserverSupported |-> TRUE,  origAttachShadow |-> TRUE],
      [isBrowser |-> TRUE,  hasElement |-> TRUE,  mutationObserverSupported |-> TRUE,  origAttachShadow |-> FALSE],
      [isBrowser |-> TRUE,  hasElement |-> TRUE,  mutationObserverSupported |-> FALSE, origAttachShadow |-> FALSE],
      [isBrowser |-> FALSE, hasElement |-> TRUE,  mutationObserverSupported |-> FALSE, origAttachShadow |-> FALSE],
      [isBrowser |-> FALSE, hasElement |-> FALSE, mutationObserverSupported |-> FALSE, origAttachShadow |-> FALSE] }

isBrowser == host.isBrowser
mutationObserverSupported == host.mutationObserverSupported
origAttachShadow == host.origAttachShadow

\* No listener, no MutationObserver, HTMLElement.prototype.attachShadow native.
NoSubscriptions ==
    [transitionend |-> FALSE, resize |-> FALSE, DOMSubtreeModified |-> FALSE,
     mutationObservers |-> 0, attachShadowPatched |-> FALSE]

(***************************************************************************)
(* ResizeObserverController.  The operators take and return a record k     *)
(* with the fields controller and dom the methods read and write; asked    *)
(* lists the calls made to the controller.                                 *)
(***************************************************************************)
connect_(k) ==
    IF ~isBrowser \/ k.controller.connected_
    THEN k
    ELSE [k EXCEPT
            !.dom.transitionend = TRUE,
            !.dom.resize = TRUE,
            !.dom.mutationObservers = IF mutationObserverSupported THEN @ + 1 ELSE @,
            !.controller.mutationsObserver_ = IF mutationObserverSupported THEN TRUE ELSE @,
            !.dom.attachShadowPatched =
                IF mutationObserverSupported /\ origAttachShadow THEN TRUE ELSE @,
            !.dom.DOMSubtreeModified = IF mutationObserverSupported THEN @ ELSE TRUE,
            !.controller.mutationEventsAdded_ = IF mutationObserverSupported THEN @ ELSE TRUE,
            !.controller.connected_ = TRUE]

disconnect_(k) ==
    IF ~isBrowser \/ ~k.controller.connected_
    THEN k
    ELSE [k EXCEPT
            !.dom.transitionend = FALSE,
            !.dom.resize = FALSE,
            !.dom.mutationObservers =
                IF k.controller.mutationsObserver_ THEN @ - 1 ELSE @,
            !.dom.attachShadowPatched =
                IF k.controller.mutationsObserver_ /\ origAttachShadow THEN FALSE ELSE @,
            !.dom.DOMSubtreeModified =
                IF k.controller.mutationEventsAdded_ THEN FALSE ELSE @,
            !.controller.mutationsObserver_ = FALSE,
            !.controller.mutationEventsAdded_ = FALSE,
            !.controller.connected_ = FALSE]

\* Mutant of addObserver: the observer is pushed without the indexOf test.
addObserverAgain(k, observer) ==
    LET pushed == [k EXCEPT !.controller.observers_ = Append(@, observer),
                            !.asked = Append(@, "addObserver")]
    IN  IF ~pushed.controller.connected_ THEN connect_(pushed) ELSE pushed

\* Mutant of addObserver: the observer is put at the front of the list.
addObserverFirst(k, observer) ==
    LET pushed == [k EXCEPT !.controller.observers_ =
                        IF indexOf(@, observer) = -1 THEN <<observer>> \o @ ELSE @,
                            !.asked = Append(@, "addObserver")]
    IN  IF ~pushed.controller.connected_ THEN connect_(pushed) ELSE pushed

addObserver(k, observer) ==
    LET pushed == [k EXCEPT !.controller.observers_ =
                        IF indexOf(@, observer) = -1 THEN Append(@, observer) ELSE @,
                            !.asked = Append(@, "addObserver")]
    IN  IF ~pushed.controller.connected_ THEN connect_(pushed) ELSE pushed

\* Mutant of removeObserver: the listeners stay when the last observer goes.
removeObserverOnly(k, observer) ==
    LET index == indexOf(k.controller.observers_, observer)
    IN  [k EXCEPT !.controller.observers_ =
            IF index # -1 THEN splice1(@, index) ELSE @,
                  !.asked = Append(@, "removeObserver")]

removeObserver(k, observer) ==
    LET index == indexOf(k.controller.observers_, observer)
        removed == [k EXCEPT !.controller.observers_ =
                        IF index # -1 THEN splice1(@, index) ELSE @,
                             !.asked = Append(@, "removeObserver")]
    IN  IF Len(removed.controller.observers_) = 0 /\ removed.controller.connected_
        THEN disconnect_(removed)
        ELSE removed

(***************************************************************************)
(* utils/throttle wraps the refresh body (constructor, line 261): a call   *)
(* of controller.refresh() from anywhere, the body itself included, asks   *)
(* for one later execution of the body; requests made before it runs       *)
(* collapse into it.                                                       *)
(***************************************************************************)
throttle(sch) == TRUE

(***************************************************************************)
(* ResizeObservation: [target, broadcastWidth, broadcastHeight,            *)
(* contentRect_], and the history field gathers: the number of isActive()  *)
(* calls the object has seen (0, 1, or 2 for more).                        *)
(***************************************************************************)
\* Mutant of ResizeObservation: the broadcast dimensions start undefined.
ResizeObservationUnset(target) ==
    [target |-> target, broadcastWidth |-> -1, broadcastHeight |-> -1,
     contentRect_ |-> createRectInit(0, 0, 0, 0), gathers |-> 0]

ResizeObservation(target) ==
    [target |-> target, broadcastWidth |-> 0, broadcastHeight |-> 0,
     contentRect_ |-> createRectInit(0, 0, 0, 0), gathers |-> 0]

\* this.contentRect_ = rect (line 44 of isActive).
Measured(observation, rect) ==
    [observation EXCEPT !.contentRect_ = rect,
                        !.gathers = IF @ < 2 THEN @ + 1 ELSE @]

\* Mutant of isActive: only the width is compared.
isActiveWidthOnly(observation) ==
    LET rect == getContentRect(observation.target)
    IN  [observation |-> Measured(observation, rect),
         result |-> rect.width # observation.broadcastWidth]

\* Mutant of isActive: the measured size is stored as the broadcast size.
isActiveCommitting(observation) ==
    LET rect == getContentRect(observation.target)
    IN  [observation |-> [Measured(observation, rect) EXCEPT
                                             !.broadcastWidth = rect.width,
                                             !.broadcastHeight = rect.height],
         result |-> (rect.width # observation.broadcastWidth
                        \/ rect.height # observation.broadcastHeight)]

\* Mutant of isActive: the rectangle is compared with the last measured one.
isActiveAnyChange(observation) ==
    LET rect == getContentRect(observation.target)
    IN  [observation |-> Measured(observation, rect),
         result |-> (rect # observation.contentRect_
                        \/ rect.width # observation.broadcastWidth
                        \/ rect.height # observation.broadcastHeight)]

\* isActive(): the observation after the call and the value returned.
isActive(observation) ==
    LET rect == getContentRect(observation.target)
    IN  [observation |-> Measured(observation, rect),
         result |-> (rect.width # observation.broadcastWidth
                        \/ rect.height # observation.broadcastHeight)]

\* broadcastRect(): the observation after the call and the value returned.
broadcastRect(observation) ==
    LET rect == observation.contentRect_
    IN  [observation |-> [observation EXCEPT !.broadcastWidth = rect.width,
                                             !.broadcastHeight = rect.height],
         result |-> rect]

ResizeObserverEntry(target, rectInit) ==
    [target |-> target, contentRect |-> createReadOnlyRect(rectInit)]

(***************************************************************************)
(* The Map of a ResizeObserverSPI is the sequence of its values in         *)
(* insertion order; the key of a value is its target.                      *)
(***************************************************************************)
MapHas(m, key) == \E k \in 1..Len(m) : m[k].target = key
MapIndex(m, key) == CHOOSE k \in 1..Len(m) : m[k].target = key
MapGet(m, key) == m[MapIndex(m, key)]
MapDelete(m, key) == IF MapHas(m, key) THEN splice1(m, MapIndex(m, key) - 1) ELSE m
MapKeys(m) == {m[k].target : k \in 1..Len(m)}

(***************************************************************************)
(* ResizeObserverSPI: [observations_, activeObservations_].  An element of *)
(* activeObservations_ is a reference to a ResizeObservation: it carries   *)
(* the object's target and contentRect_, and live tells whether the object *)
(* is still the value the Map holds for that target (unobserve removes the *)
(* object from the Map but not from activeObservations_).                  *)
(***************************************************************************)
callbackCtx_(observer) == <<"ResizeObserver", observer>>

clearActive(s) == [s EXCEPT !.activeObservations_ = <<>>]

hasActive(s) == Len(s.activeObservations_) > 0

RECURSIVE gatherFrom(_, _)
\* observations_.forEach of gatherActive, from position k on.
gatherFrom(s, k) ==
    IF k > Len(s.observations_)
    THEN s
    ELSE LET r == isActive(s.observations_[k])
             measured == [s EXCEPT !.observations_[k] = r.observation]
         IN  gatherFrom(
                IF r.result
                THEN [measured EXCEPT !.activeObservations_ =
                        Append(@, [target |-> r.observation.target,
                                   contentRect_ |-> r.observation.contentRect_,
                                   live |-> TRUE])]
                ELSE measured,
                k + 1)

gatherActive(s) == gatherFrom(clearActive(s), 1)

\* Mutant of entriesOf: the entries come in the reverse order.
entriesReversed(s) ==
    [k \in 1..Len(s.activeObservations_) |->
        ResizeObserverEntry(
            s.activeObservations_[Len(s.activeObservations_) + 1 - k].target,
            s.activeObservations_[Len(s.activeObservations_) + 1 - k].contentRect_)]

\* The entries broadcastActive builds (lines 181-184).
entriesOf(s) ==
    [k \in 1..Len(s.activeObservations_) |->
        ResizeObserverEntry(s.activeObservations_[k].target,
                            s.activeObservations_[k].contentRect_)]

\* Mutant of commitActive: the broadcast dimensions are kept per target, for
\* all observers together.
commitShared(sp, observer) ==
    LET told(t) == \E a \in 1..Len(sp[observer].activeObservations_) :
                        /\ sp[observer].activeObservations_[a].live
                        /\ sp[observer].activeObservations_[a].target = t
        shared(obs) == [k \in 1..Len(obs) |->
                            IF told(obs[k].target)
                            THEN broadcastRect(obs[k]).observation
                            ELSE obs[k]]
    IN  [o \in Instances |->
            [observations_ |-> shared(sp[o].observations_),
             activeObservations_ |-> sp[o].activeObservations_]]

\* Mutant of commitActive: the broadcast dimensions of the active
\* observations of every observer are stored at once.
commitAll(sp, observer) ==
    [o \in Instances |->
        [observations_ |->
            [k \in 1..Len(sp[o].observations_) |->
                IF \E a \in 1..Len(sp[o].activeObservations_) :
                        /\ sp[o].activeObservations_[a].live
                        /\ sp[o].activeObservations_[a].target
                                = sp[o].observations_[k].target
                THEN broadcastRect(sp[o].observations_[k]).observation
                ELSE sp[o].observations_[k]],
         activeObservations_ |-> sp[o].activeObservations_]]

\* The effect of the broadcastRect() calls of lines 181-184: the objects
\* activeObservations_ of the observer refers to are updated.
commitActive(sp, observer) ==
    [sp EXCEPT ![observer].observations_ =
        [k \in 1..Len(@) |->
            IF \E a \in 1..Len(sp[observer].activeObservations_) :
                    /\ sp[observer].activeObservations_[a].live
                    /\ sp[observer].activeObservations_[a].target = @[k].target
            THEN broadcastRect(@[k]).observation
            ELSE @[k]]]


(***************************************************************************)
(* The methods of ResizeObserverSPI that reach the controller work on the  *)
(* bundle w = [spi, controller, dom, scheduled, thrown, asked].            *)
(***************************************************************************)
World ==
    [spi |-> spi, controller |-> controller, dom |-> dom,
     scheduled |-> scheduled, thrown |-> "none", asked |-> <<>>]

\* Mutant of observe: the test observations.has(target) is missing, and the
\* Map gets a new ResizeObservation for a target it already holds.
observeReplace(w, observer, target) ==
    IF ~host.hasElement
    THEN w
    ELSE IF target \notin Targets
    THEN [w EXCEPT !.thrown = "TypeError"]
    ELSE LET set == [w EXCEPT !.spi[observer].observations_ =
                        IF MapHas(@, target)
                        THEN [@ EXCEPT ![MapIndex(@, target)] = ResizeObservation(target)]
                        ELSE Append(@, ResizeObservation(target))]
             added == addObserver(set, observer)
         IN  [added EXCEPT !.scheduled = throttle(@),
                           !.asked = Append(@, "refresh")]

observe(w, observer, target) ==
    IF ~host.hasElement
    THEN w
    ELSE IF target \notin Targets
    THEN [w EXCEPT !.thrown = "TypeError"]
    ELSE IF MapHas(w.spi[observer].observations_, target)
    THEN w
    ELSE LET set == [w EXCEPT !.spi[observer].observations_ =
                        Append(@, ResizeObservation(target))]
             added == addObserver(set, observer)
         IN  [added EXCEPT !.scheduled = throttle(@),
                           !.asked = Append(@, "refresh")]

\* Mutant of unobserve: the controller is not told when the Map gets empty.
unobserveKeep(w, observer, target) ==
    IF ~host.hasElement \/ target \notin Targets
            \/ ~MapHas(w.spi[observer].observations_, target)
    THEN w
    ELSE [w EXCEPT !.spi[observer].observations_ = MapDelete(@, target)]

\* Mutant of unobserve: the test observations.has(target) is missing.
unobserveAlways(w, observer, target) ==
    IF ~host.hasElement
    THEN w
    ELSE IF target \notin Targets
    THEN [w EXCEPT !.thrown = "TypeError"]
    ELSE LET deleted ==
                [w EXCEPT
                    !.spi[observer].observations_ = MapDelete(@, target),
                    !.spi[observer].activeObservations_ =
                        [k \in 1..Len(@) |->
                            IF @[k].target = target
                            THEN [@[k] EXCEPT !.live = FALSE]
                            ELSE @[k]]]
         IN  IF Len(deleted.spi[observer].observations_) = 0
             THEN removeObserver(deleted, observer)
             ELSE deleted

unobserve(w, observer, target) ==
    IF ~host.hasElement
    THEN w
    ELSE IF target \notin Targets
    THEN [w EXCEPT !.thrown = "TypeError"]
    ELSE IF ~MapHas(w.spi[observer].observations_, target)
    THEN w
    ELSE LET deleted ==
                [w EXCEPT
                    !.spi[observer].observations_ = MapDelete(@, target),
                    !.spi[observer].activeObservations_ =
                        [k \in 1..Len(@) |->
                            IF @[k].target = target
                            THEN [@[k] EXCEPT !.live = FALSE]
                            ELSE @[k]]]
         IN  IF Len(deleted.spi[observer].observations_) = 0
             THEN removeObserver(deleted, observer)
             ELSE deleted

\* Mutant of disconnect: clearActive() is not called.
disconnectKeepActive(w, observer) ==
    LET cleared == [w EXCEPT !.spi[observer].observations_ = <<>>]
    IN  removeObserver(cleared, observer)

disconnect(w, observer) ==
    LET cleared == [w EXCEPT !.spi[observer] =
                        [clearActive(@) EXCEPT !.observations_ = <<>>]]
    IN  removeObserver(cleared, observer)

\* Mutants of refresh: it never calls itself; it always calls itself.
refreshOnce(sch, changesDetected) == sch

refreshAlways(sch, changesDetected) == throttle(sch)

\* refresh(), lines 309-311: what the body does once updateObservers_ has
\* returned changesDetected.  this.refresh is the throttled function.
refresh(sch, changesDetected) ==
    IF changesDetected THEN throttle(sch) ELSE sch

\* Mutant of GatherDone: the broadcast starts after the first gatherActive.
GatherDoneEarly(k, n) == TRUE

\* The filter() of updateObservers_ has visited all n observers after the k-th.
GatherDone(k, n) == k = n

(***************************************************************************)
(* onTransitionEnd_: property names are sequences of characters.           *)
(***************************************************************************)
transitionKeys ==
    << <<"t","o","p">>, <<"r","i","g","h","t">>, <<"b","o","t","t","o","m">>,
       <<"l","e","f","t">>, <<"w","i","d","t","h">>, <<"h","e","i","g","h","t">>,
       <<"s","i","z","e">>, <<"w","e","i","g","h","t">> >>

\* String.prototype.indexOf, -1 when key is no substring of str.
strIndexOf(str, key) ==
    LET at == {p \in 0..(Len(str) - Len(key)) : SubSeq(str, p + 1, p + Len(key)) = key}
    IN  IF at = {} THEN -1 ELSE CHOOSE p \in at : \A q \in at : p <= q

isReflowProperty(propertyName) ==
    \E k \in 1..Len(transitionKeys) : strIndexOf(propertyName, transitionKeys[k]) # -1

PropertyNames ==
    { <<>>, <<"o","p","a","c","i","t","y">>, <<"w","i","d","t","h">>,
      <<"m","i","n","-","h","e","i","g","h","t">> }

(***************************************************************************)
(* History.                                                                *)
(***************************************************************************)
\* The observers with an observation whose broadcast dimensions differ from
\* the layout.
StaleObservers(sp, layout) ==
    {o \in Instances :
        \E k \in 1..Len(sp[o].observations_) :
            LET ob == sp[o].observations_[k]
            IN  ob.broadcastWidth # layout[ob.target].width
                \/ ob.broadcastHeight # layout[ob.target].height}

\* The history since the last change of a size or of a registry.  A change
\* made by top-level code opens a period ("changed", then "ran" once a whole
\* cycle has run) in which the invocations of every callback are counted;
\* stale holds the observers that had something to report when it opened.  A
\* change made inside a callback, or a callback that throws, makes the
\* period "dirty": nothing is counted but the invocation that tells an
\* observer a throw has left untold; stale then holds these observers, until
\* they are told or the next change.
CleanEpoch(sp, layout) ==
    [phase |-> "changed", stale |-> StaleObservers(sp, layout),
     calls |-> [o \in Instances |-> 0]]

DirtyEpoch ==
    [phase |-> "dirty", stale |-> {}, calls |-> [o \in Instances |-> 0]]

\* A callback has thrown in the broadcast pass at position k of active: stale
\* holds the observers later in the pass that were to be told a size the
\* layout still has.
SkippedEpoch(sp, layout, active, k) ==
    [DirtyEpoch EXCEPT !.stale =
        {active[j] : j \in {i \in (k + 1)..Len(active) :
            \E a \in 1..Len(sp[active[i]].activeObservations_) :
                LET ref == sp[active[i]].activeObservations_[a]
                IN  /\ ref.live
                    /\ ref.contentRect_.width = layout[ref.target].width
                    /\ ref.contentRect_.height = layout[ref.target].height}}]

ChangedEpoch(sp, layout) ==
    IF pc = "idle" THEN CleanEpoch(sp, layout) ELSE DirtyEpoch

Counted(e, observer) ==
    IF e.phase = "dirty"
    THEN IF observer \in e.stale
         THEN [e EXCEPT !.stale = @ \ {observer}, !.calls[observer] = 1]
         ELSE e
    ELSE [e EXCEPT !.calls[observer] = IF @ < MaxCalls THEN @ + 1 ELSE @]

Ran(e) == IF e.phase = "changed" THEN [e EXCEPT !.phase = "ran"] ELSE e

NoCall == [observer |-> "-", entries |-> <<>>, receiver |-> <<>>, argument |-> <<>>]

Step(op, inst, target, result) ==
    [op |-> op, inst |-> inst, target |-> target, result |-> result,
     asked |-> <<>>]

cycleVars == <<pc, idx, activeObservers, cycleObservers, gathered, visited, cbResized>>

(***************************************************************************)
(* Initial state: the module is loaded, no ResizeObserver has observed     *)
(* anything, the controller is not connected.                              *)
(***************************************************************************)
Init ==
    /\ host \in HostProfiles
    /\ elementRect = InitialLayout
    /\ dom = NoSubscriptions
    /\ controller = [connected_ |-> FALSE, mutationEventsAdded_ |-> FALSE,
                     mutationsObserver_ |-> FALSE, observers_ |-> <<>>]
    /\ scheduled = FALSE
    /\ spi = [o \in Instances |-> [observations_ |-> <<>>, activeObservations_ |-> <<>>]]
    /\ pc = "idle"
    /\ idx = 0
    /\ activeObservers = <<>>
    /\ cycleObservers = <<>>
    /\ gathered = {}
    /\ visited = {}
    /\ cbResized = {}
    /\ call = NoCall
    /\ epoch = CleanEpoch(spi, elementRect)
    /\ last = Step("Init", "-", NoTarget, "-")
    /\ ops = 0
    /\ resizes = 0
    /\ throws = 0

(***************************************************************************)
(* Consumer code: top-level code (pc = "idle") or the body of a callback   *)
(* (pc = "callback").                                                      *)
(***************************************************************************)
ConsumerRuns == pc \in {"idle", "callback"}

\* The code running is top-level code, or the callback of the observer whose
\* broadcastActive is in progress.
Caller == IF pc = "callback" THEN activeObservers[idx] ELSE "-"

\* The ResizeObserverSPI objects are interchangeable: the first call of a run
\* is made on A.
MayCall(observer) ==
    /\ ConsumerRuns
    /\ ops < MaxOps
    /\ ops = 0 => observer = "A"

ApiCall(w, op, observer, target) ==
    /\ spi' = w.spi
    /\ controller' = w.controller
    /\ dom' = w.dom
    /\ scheduled' = w.scheduled
    /\ ops' = ops + 1
    /\ epoch' = IF w.spi = spi /\ w.controller = controller
                THEN epoch ELSE ChangedEpoch(w.spi, elementRect)
    /\ last' = [Step(op, observer, target,
                     IF w.thrown # "none" THEN w.thrown
                     ELSE IF w.spi = spi /\ w.controller = controller THEN "noop"
                     ELSE "ok")
                 EXCEPT !.asked = w.asked]
    /\ UNCHANGED <<host, elementRect, cycleVars, call, resizes, throws>>

Observe(observer, target) ==
    /\ MayCall(observer)
    /\ ApiCall(observe(World, observer, target), "observe", observer, target)

Unobserve(observer, target) ==
    /\ MayCall(observer)
    /\ ApiCall(unobserve(World, observer, target), "unobserve", observer, target)

Disconnect(observer) ==
    /\ MayCall(observer)
    /\ ApiCall(disconnect(World, observer), "disconnect", observer, NoTarget)

\* The layout changes: an element gets another content rectangle.
Resize(target, rect) ==
    /\ ConsumerRuns
    /\ resizes < MaxResizes
    /\ rect \in Relayouts(elementRect[target])
    /\ elementRect' = [elementRect EXCEPT ![target] = rect]
    /\ resizes' = resizes + 1
    /\ LET sized == rect.width # elementRect[target].width
                        \/ rect.height # elementRect[target].height
       IN  /\ epoch' = IF sized THEN ChangedEpoch(spi, elementRect') ELSE epoch
           /\ cbResized' = IF sized /\ pc = "callback"
                           THEN cbResized \cup {<<Caller, target>>} ELSE cbResized
           /\ last' = Step("Resize", "-", target, IF sized THEN "size" ELSE "position")
    /\ UNCHANGED <<host, dom, controller, scheduled, spi, pc, idx, activeObservers,
                   cycleObservers, gathered, visited, call, ops, throws>>

(***************************************************************************)
(* The host delivers a signal (only between tasks: pc = "idle").           *)
(***************************************************************************)
Signal(channel, fires) ==
    /\ pc = "idle"
    /\ scheduled' = IF fires THEN throttle(scheduled) ELSE scheduled
    /\ last' = Step("Signal", "-", NoTarget, IF fires THEN "refresh" ELSE "ignored")
    /\ UNCHANGED <<host, elementRect, dom, controller, spi, cycleVars, call,
                   epoch, ops, resizes, throws>>

WindowResize == Signal("resize", dom.resize)

Mutation == Signal("mutation", dom.mutationObservers > 0)

SubtreeModified == Signal("DOMSubtreeModified", dom.DOMSubtreeModified)

TransitionEnd(propertyName) ==
    Signal("transitionend", dom.transitionend /\ isReflowProperty(propertyName))


(***************************************************************************)
(* The throttle runs the refresh body (a timer, then an animation frame).  *)
(* The body is refresh() of lines 304-312; updateObservers_ is cut into    *)
(* the steps below.                                                        *)
(***************************************************************************)
\* updateObservers_ and refresh() are left: the arrays of the cycle are dropped.
CycleEnd ==
    /\ pc' = "idle"
    /\ idx' = 0
    /\ activeObservers' = <<>>
    /\ cycleObservers' = <<>>
    /\ gathered' = {}
    /\ visited' = {}

TimerFire ==
    /\ pc = "idle"
    /\ scheduled
    /\ IF Len(controller.observers_) = 0
       THEN \* filter() and forEach() visit nothing; changesDetected is false
            /\ CycleEnd
            /\ cbResized' = {}
            /\ scheduled' = refresh(FALSE, FALSE)
            /\ last' = Step("TimerFire", "-", NoTarget, "end")
       ELSE /\ pc' = "gather"
            /\ idx' = 1
            /\ activeObservers' = <<>>
            /\ cycleObservers' = controller.observers_
            /\ gathered' = {}
            /\ visited' = {}
            /\ cbResized' = {}
            /\ scheduled' = FALSE
            /\ last' = Step("TimerFire", "-", NoTarget, "-")
    /\ epoch' = IF Len(controller.observers_) = 0 THEN Ran(epoch) ELSE epoch
    /\ UNCHANGED <<host, elementRect, dom, controller, spi, call,
                   ops, resizes, throws>>

\* One iteration of the filter() callback of lines 323-325.
GatherStep ==
    /\ pc = "gather"
    /\ LET observer == controller.observers_[idx]
           after == gatherActive(spi[observer])
           active == IF hasActive(after) THEN Append(activeObservers, observer)
                     ELSE activeObservers
       IN  /\ spi' = [spi EXCEPT ![observer] = after]
           /\ IF GatherDone(idx, Len(controller.observers_))
              THEN IF Len(active) = 0
                   THEN \* forEach() visits nothing; refresh() returns
                        /\ CycleEnd
                        /\ cbResized' = cbResized
                        /\ scheduled' = refresh(scheduled, FALSE)
                        /\ last' = Step("GatherStep", observer, NoTarget, "end")
                        /\ epoch' = Ran(epoch)
                   ELSE /\ pc' = "broadcast"
                        /\ idx' = 1
                        /\ activeObservers' = active
                        /\ gathered' = gathered \cup {observer}
                        /\ scheduled' = scheduled
                        /\ last' = Step("GatherStep", observer, NoTarget, "-")
                        /\ UNCHANGED <<cycleObservers, visited, cbResized, epoch>>
              ELSE /\ pc' = "gather"
                   /\ idx' = idx + 1
                   /\ activeObservers' = active
                   /\ gathered' = gathered \cup {observer}
                   /\ scheduled' = scheduled
                   /\ last' = Step("GatherStep", observer, NoTarget, "-")
                   /\ UNCHANGED <<cycleObservers, visited, cbResized, epoch>>
    /\ UNCHANGED <<host, elementRect, dom, controller, call,
                   ops, resizes, throws>>

\* Mutant of NextBroadcast: the pass ends with the last position of the
\* controller's list instead of the last position of the array filter() built.
NextBroadcastLive(op, observer) ==
    IF idx >= Len(controller.observers_)
    THEN /\ CycleEnd
         /\ cbResized' = cbResized
         /\ scheduled' = refresh(scheduled, Len(activeObservers) > 0)
         /\ last' = Step(op, observer, NoTarget, "end")
         /\ epoch' = Ran(epoch)
    ELSE /\ pc' = "broadcast"
         /\ idx' = idx + 1
         /\ visited' = visited \cup {observer}
         /\ scheduled' = scheduled
         /\ last' = Step(op, observer, NoTarget, "-")
         /\ UNCHANGED <<activeObservers, cycleObservers, gathered, cbResized, epoch>>

\* forEach() of line 332 moves on from position idx, where observer is; after
\* the last position updateObservers_ returns true and refresh() calls
\* this.refresh().
NextBroadcast(op, observer) ==
    IF idx = Len(activeObservers)
    THEN /\ CycleEnd
         /\ cbResized' = cbResized
         /\ scheduled' = refresh(scheduled, Len(activeObservers) > 0)
         /\ last' = Step(op, observer, NoTarget, "end")
         /\ epoch' = Ran(epoch)
    ELSE /\ pc' = "broadcast"
         /\ idx' = idx + 1
         /\ visited' = visited \cup {observer}
         /\ scheduled' = scheduled
         /\ last' = Step(op, observer, NoTarget, "-")
         /\ UNCHANGED <<activeObservers, cycleObservers, gathered, cbResized, epoch>>

\* broadcastActive() of the observer at position idx, up to the invocation of
\* the callback (lines 172-186).
BroadcastStep ==
    /\ pc = "broadcast"
    /\ LET observer == activeObservers[idx]
       IN  IF ~hasActive(spi[observer])
           THEN /\ NextBroadcast("BroadcastStep", observer)
                /\ UNCHANGED <<spi, call>>
           ELSE /\ spi' = commitActive(spi, observer)
                /\ call' = [observer |-> observer,
                             entries |-> entriesOf(spi[observer]),
                             receiver |-> callbackCtx_(observer),
                             argument |-> callbackCtx_(observer)]
                /\ epoch' = Counted(epoch, observer)
                /\ pc' = "callback"
                /\ visited' = visited \cup {observer}
                /\ last' = Step("BroadcastStep", observer, NoTarget, "callback")
                /\ UNCHANGED <<idx, scheduled, activeObservers, cycleObservers,
                               gathered, cbResized>>
    /\ UNCHANGED <<host, elementRect, dom, controller, ops, resizes, throws>>

\* The callback returns: line 187, then the forEach() goes on.
CallbackReturn ==
    /\ pc = "callback"
    /\ spi' = [spi EXCEPT ![activeObservers[idx]] = clearActive(@)]
    /\ NextBroadcast("CallbackReturn", activeObservers[idx])
    /\ call' = NoCall
    /\ UNCHANGED <<host, elementRect, dom, controller, ops, resizes, throws>>

\* Mutant of CallbackThrow: broadcastActive catches the exception and the
\* forEach() goes on.
CallbackThrowCaught ==
    /\ pc = "callback"
    /\ throws < MaxThrows
    /\ throws' = throws + 1
    /\ NextBroadcast("CallbackThrow", activeObservers[idx])
    /\ call' = NoCall
    /\ UNCHANGED <<host, elementRect, dom, controller, spi, ops, resizes>>

\* The callback throws: the exception leaves broadcastActive, forEach(),
\* updateObservers_ and refresh().
CallbackThrow ==
    /\ pc = "callback"
    /\ throws < MaxThrows
    /\ throws' = throws + 1
    /\ CycleEnd
    /\ cbResized' = cbResized
    /\ epoch' = SkippedEpoch(spi, elementRect, activeObservers, idx)
    /\ call' = NoCall
    /\ last' = Step("CallbackThrow", activeObservers[idx], NoTarget, "end")
    /\ UNCHANGED <<host, elementRect, dom, controller, scheduled, spi,
                   ops, resizes>>

Next ==
    \/ \E o \in Instances, t \in Targets \cup {NotAnElement} : Observe(o, t)
    \/ \E o \in Instances, t \in Targets \cup {NotAnElement} : Unobserve(o, t)
    \/ \E o \in Instances : Disconnect(o)
    \/ \E t \in Targets, r \in Rects : Resize(t, r)
    \/ WindowResize
    \/ Mutation
    \/ SubtreeModified
    \/ \E p \in PropertyNames : TransitionEnd(p)
    \/ TimerFire
    \/ GatherStep
    \/ BroadcastStep
    \/ CallbackReturn
    \/ CallbackThrow

Spec == Init /\ [][Next]_vars


(***************************************************************************)
(* Properties.                                                             *)
(***************************************************************************)
\* The step leaves updateObservers_ and refresh() without an exception.
CycleEndsNormally ==
    /\ pc \in {"gather", "broadcast", "callback"}
    /\ pc' = "idle"
    /\ last'.op # "CallbackThrow"

\* The step ends a cycle in which updateObservers_ returns true.
CycleEndsWithChanges ==
    /\ pc \in {"broadcast", "callback"}
    /\ pc' = "idle"
    /\ last'.op # "CallbackThrow"

\* The observation the observer holds for the target differs from the layout.
IsStale(sp, observer, target) ==
    /\ MapHas(sp[observer].observations_, target)
    /\ LET ob == MapGet(sp[observer].observations_, target)
       IN  ob.broadcastWidth # elementRect[target].width
           \/ ob.broadcastHeight # elementRect[target].height

\* C1: in a refresh cycle, gatherActive has run for every instance of the
\* scheduler's list before broadcastActive runs for any instance, and no
\* gatherActive runs once the broadcast pass has begun.
C1_GatherBeforeBroadcast ==
    /\ pc \in {"broadcast", "callback"} => Range(cycleObservers) \subseteq gathered
    /\ pc = "gather" => visited = {}

\* Both instances are active and the callback of the first one is running.
C1_Witness ==
    /\ pc = "callback"
    /\ Len(cycleObservers) = 2
    /\ Len(activeObservers) = 2
    /\ gathered = {"A", "B"}

BroadcastDims(sp) ==
    [o \in Instances |->
        [k \in 1..Len(sp[o].observations_) |->
            <<sp[o].observations_[k].target,
              sp[o].observations_[k].broadcastWidth,
              sp[o].observations_[k].broadcastHeight>>]]

\* C4: a cycle in which no observation of any instance is active ends with
\* its gather pass, every instance gathered once: no callback is invoked, no
\* broadcast dimension changes and refresh() does not call itself.
C4_IdleCycle ==
    /\ [][(/\ pc = "gather"
           /\ idx = Len(controller.observers_)
           /\ \A o \in Range(controller.observers_), t \in Targets : ~IsStale(spi, o, t))
          => (/\ pc' = "idle"
              /\ scheduled' = scheduled
              /\ call' = NoCall
              /\ epoch'.calls = epoch.calls
              /\ BroadcastDims(spi') = BroadcastDims(spi)
              /\ Cardinality(gathered) = idx - 1
              /\ controller.observers_[idx] \notin gathered)]_vars
    /\ [][(pc = "idle" /\ scheduled /\ last'.op = "TimerFire"
              /\ Len(controller.observers_) = 0)
          => (pc' = "idle" /\ ~scheduled' /\ call' = NoCall /\ spi' = spi)]_vars

\* A cycle over two instances has ended with the gather pass, nothing pending.
C4_Witness ==
    /\ pc = "idle"
    /\ ~scheduled
    /\ last.op = "GatherStep"
    /\ last.result = "end"
    /\ Len(controller.observers_) = 2


\* What connect_ installs in this host.
Subscriptions ==
    [transitionend |-> TRUE, resize |-> TRUE,
     DOMSubtreeModified |-> ~mutationObserverSupported,
     mutationObservers |-> IF mutationObserverSupported THEN 1 ELSE 0,
     attachShadowPatched |-> (mutationObserverSupported /\ origAttachShadow)]

\* C5: in a browser the signal subscriptions are installed exactly when the
\* scheduler's instance list is not empty, each of them once, and the list
\* never holds an instance twice.
C5_SubscribedIffObservers ==
    /\ NoDuplicates(controller.observers_)
    /\ isBrowser =>
        /\ controller.connected_ <=> Len(controller.observers_) > 0
        /\ dom = IF Len(controller.observers_) > 0 THEN Subscriptions ELSE NoSubscriptions
        /\ controller.mutationsObserver_ <=> (dom.mutationObservers = 1)
        /\ controller.mutationEventsAdded_ <=> dom.DOMSubtreeModified
    /\ ~isBrowser => (dom = NoSubscriptions /\ ~controller.connected_)

\* addObserver has run again for the instance the list already holds.
C5_Witness ==
    /\ isBrowser
    /\ controller.observers_ = <<"A">>
    /\ Len(spi["A"].observations_) = 2
    /\ last.op = "observe"
    /\ last.result = "ok"
    /\ dom = Subscriptions

\* C6: an instance is in the scheduler's instance list exactly when its
\* registry is not empty.
C6_ListedIffRegistry ==
    \A o \in Instances :
        (o \in Range(controller.observers_)) <=> (Len(spi[o].observations_) > 0)

\* An instance has just left the list by deregistering its last target while
\* the other instance stays.
C6_Witness ==
    /\ last.op = "unobserve"
    /\ last.result = "ok"
    /\ Len(spi[last.inst].observations_) = 0
    /\ Len(controller.observers_) = 1

\* C7: once the only target of the only instance is deregistered every
\* subscription is gone, the host's signals no longer reach refresh, and the
\* body, should an earlier request still run it, invokes no callback.
C7_NoSignalAfterTeardown ==
    /\ [](Len(controller.observers_) = 0 =>
            (dom = NoSubscriptions /\ ~controller.connected_))
    /\ [][(Len(controller.observers_) = 0 /\ last'.op = "Signal") =>
            (/\ last'.result = "ignored"
             /\ scheduled' = scheduled
             /\ pc' = "idle"
             /\ call' = NoCall
             /\ epoch'.calls = epoch.calls)]_vars
    /\ [][(Len(controller.observers_) = 0 /\ last'.op = "TimerFire") =>
            (pc' = "idle" /\ ~scheduled' /\ call' = NoCall
                /\ epoch'.calls = epoch.calls)]_vars

\* In a browser a target was registered (its refresh request is still
\* pending), the instance list is empty again, and a signal has been ignored.
C7_Witness ==
    /\ isBrowser
    /\ Len(controller.observers_) = 0
    /\ scheduled
    /\ last.op = "Signal"
    /\ last.result = "ignored"


\* The entry has the dimensions the target has in the layout.
HasLayoutSize(entry) ==
    /\ entry.contentRect.width = elementRect[entry.target].width
    /\ entry.contentRect.height = elementRect[entry.target].height

\* C8: one instance watching one target.  After a change of the target's
\* size by top-level code, the first cycle invokes the callback once, with
\* one entry for the target carrying the new dimensions; once a cycle has
\* run, further cycles invoke nothing as long as the size stays.
C8_OneInstanceOneTarget ==
    \A o \in Instances, t \in Targets :
        (controller.observers_ = <<o>> /\ MapKeys(spi[o].observations_) = {t}) =>
            /\ (pc = "callback" /\ epoch.phase # "dirty") =>
                    /\ call.observer = o
                    /\ Len(call.entries) = 1
                    /\ call.entries[1].target = t
                    /\ HasLayoutSize(call.entries[1])
                    /\ o \in epoch.stale
                    /\ epoch.calls[o] = 1
            /\ (pc # "callback" /\ epoch.phase = "changed") => epoch.calls[o] = 0
            /\ epoch.phase = "ran" =>
                    /\ epoch.calls[o] = IF o \in epoch.stale THEN 1 ELSE 0
                    /\ ~IsStale(spi, o, t)
            /\ epoch.phase # "dirty" => \A b \in Instances \ {o} : epoch.calls[b] = 0

\* A watches t1 alone; t1 was resized by top-level code, A was told once,
\* the follow-up cycle has run and nothing is pending.
C8_Witness ==
    /\ controller.observers_ = <<"A">>
    /\ MapKeys(spi["A"].observations_) = {"t1"}
    /\ resizes = 1
    /\ elementRect["t1"].height # InitialLayout["t1"].height
    /\ epoch.phase = "ran"
    /\ epoch.calls["A"] = 1
    /\ pc = "idle"
    /\ ~scheduled
    /\ last.op = "GatherStep"

\* C9: two instances watching the same target.  After a change of its size by
\* top-level code each callback is invoked once with the new dimensions, and
\* while one instance is told, the observation of the other, not yet told,
\* keeps differing from the layout.
C9_TwoInstancesOneTarget ==
    \A t \in Targets :
        (\A o \in Instances : MapHas(spi[o].observations_, t)) =>
            /\ epoch.phase = "ran" =>
                    \A o \in Instances :
                        /\ epoch.calls[o] = IF o \in epoch.stale THEN 1 ELSE 0
                        /\ ~IsStale(spi, o, t)
            /\ (pc = "callback" /\ epoch.phase # "dirty") =>
                    /\ \A k \in 1..Len(call.entries) : HasLayoutSize(call.entries[k])
                    /\ ~IsStale(spi, call.observer, t)
                    /\ \A o \in epoch.stale :
                            epoch.calls[o] = 0 => o \in StaleObservers(spi, elementRect)

\* A and B watch t1 only; t1 was resized by top-level code and both have been
\* told once.
C9_Witness ==
    /\ \A o \in Instances : MapKeys(spi[o].observations_) = {"t1"}
    /\ resizes = 1
    /\ elementRect["t1"].width # InitialLayout["t1"].width
    /\ epoch.phase = "ran"
    /\ epoch.stale = {"A", "B"}
    /\ epoch.calls = [o \in Instances |-> 1]

\* The targets of the active set, in its order.
ActiveTargets(s) ==
    [k \in 1..Len(s.activeObservations_) |-> s.activeObservations_[k].target]

\* The targets of the registry whose observation differs from the layout, in
\* the order of the registry.
StaleTargets(sp, observer) ==
    LET keys == [k \in 1..Len(sp[observer].observations_) |->
                    sp[observer].observations_[k].target]
        Differs(t) == IsStale(sp, observer, t)
    IN  SelectSeq(keys, Differs)

\* C10: gatherActive leaves in the active set the observations that differ
\* from the layout, in registry order.  broadcastActive with an empty active
\* set does nothing; otherwise it invokes the callback once, with one entry
\* per observation of the active set in its order, and with callbackCtx_ as
\* receiver and as second argument; when the callback has returned the
\* active set is empty.
C10_BroadcastActive ==
    /\ [][pc = "gather" =>
            ActiveTargets(spi'[controller.observers_[idx]])
                = StaleTargets(spi, controller.observers_[idx])]_vars
    /\ [][pc = "broadcast" =>
            LET o == activeObservers[idx]
                active == spi[o].activeObservations_
            IN  IF Len(active) = 0
                THEN /\ pc' # "callback"
                     /\ UNCHANGED <<spi, call, epoch.calls, controller, dom, elementRect>>
                ELSE /\ pc' = "callback"
                     /\ call'.observer = o
                     /\ call'.receiver = callbackCtx_(o)
                     /\ call'.argument = callbackCtx_(o)
                     /\ Len(call'.entries) = Len(active)
                     /\ \A k \in 1..Len(active) :
                            /\ call'.entries[k].target = active[k].target
                            /\ call'.entries[k].contentRect
                                    = createReadOnlyRect(active[k].contentRect_)
                            /\ active[k].live =>
                                    active[k].contentRect_
                                        = MapGet(spi[o].observations_,
                                                 active[k].target).contentRect_
                     /\ epoch.phase # "dirty" => epoch'.calls[o] = epoch.calls[o] + 1
                     /\ spi'[o].activeObservations_ = active]_vars
    /\ [][(pc = "callback" /\ last'.op = "CallbackReturn") =>
            (/\ spi'[activeObservers[idx]].activeObservations_ = <<>>
             /\ call' = NoCall
             /\ epoch'.calls = epoch.calls)]_vars

\* The callback of an instance is running with two entries.
C10_Witness ==
    /\ pc = "callback"
    /\ Len(call.entries) = 2
    /\ call.entries[1].target # call.entries[2].target

\* broadcastActive has found the active set empty: the instance was
\* disconnected by an earlier callback of the pass.
C10_WitnessEmpty ==
    /\ last.op = "BroadcastStep"
    /\ last.result # "callback"


\* C11: an exception a callback raises leaves broadcastActive,
\* updateObservers_ and refresh() at once: clearActive is not run, no
\* instance later in the active list is told in that pass or has its
\* broadcast dimensions stored, refresh() does not ask for another cycle, and
\* a new cycle starts only with a new execution of the body.
C11_ThrowEndsCycle ==
    /\ [][last'.op = "CallbackThrow" =>
            (/\ pc = "callback"
             /\ pc' = "idle"
             /\ call' = NoCall
             /\ scheduled' = scheduled
             /\ spi' = spi
             /\ activeObservers' = <<>>)]_vars
    /\ [][(pc = "idle" /\ pc' # "idle") =>
            (scheduled /\ last'.op = "TimerFire" /\ pc' = "gather")]_vars
    /\ [][(pc # "callback" /\ pc' = "callback") =>
            (pc = "broadcast" /\ last'.op = "BroadcastStep")]_vars

\* The callback of A has thrown while B, not yet told, was later in the pass.
C11_Witness ==
    /\ last.op = "CallbackThrow"
    /\ last.inst = "A"
    /\ pc = "idle"
    /\ hasActive(spi["B"])
    /\ throws = 1

\* C12: the broadcast pass goes through the array filter() built at the end
\* of the gather pass, position by position: whatever the callbacks remove
\* from the controller's list, the array stays as it is, the instances before
\* the current position have been visited, once each, and the pass ends
\* normally only after the last position.
C12_PassVisitsSnapshot ==
    /\ [](pc \in {"broadcast", "callback"} =>
            /\ NoDuplicates(activeObservers)
            /\ idx \in 1..Len(activeObservers)
            /\ Range(activeObservers) \subseteq Range(cycleObservers)
            /\ visited = {activeObservers[k] :
                            k \in 1..(IF pc = "callback" THEN idx ELSE idx - 1)})
    /\ [][(pc \in {"broadcast", "callback"} /\ pc' \in {"broadcast", "callback"}) =>
            (/\ activeObservers' = activeObservers
             /\ idx' = IF pc' = "broadcast" /\ last'.op \in {"BroadcastStep", "CallbackReturn"}
                       THEN idx + 1 ELSE idx)]_vars
    /\ [][CycleEndsWithChanges => idx = Len(activeObservers)]_vars

\* The callback of A has removed A from the controller's list, and the pass
\* has gone on to B.
C12_Witness ==
    /\ pc \in {"broadcast", "callback"}
    /\ activeObservers = <<"A", "B">>
    /\ idx = 2
    /\ "A" \notin Range(controller.observers_)
    /\ "B" \in Range(controller.observers_)


\* The step is a call that leaves the SPI objects, the controller, the
\* subscriptions and the throttle as they are, raises no error and makes no
\* call to the controller.
NoEffect ==
    /\ spi' = spi
    /\ controller' = controller
    /\ dom' = dom
    /\ scheduled' = scheduled
    /\ last'.asked = <<>>
    /\ last'.result = "noop"

\* C13: observe() of a target the instance's registry already holds changes
\* nothing: the registry keeps its size and its ResizeObservation, broadcast
\* dimensions included, and neither addObserver nor refresh is called.
C13_RegisterTwice ==
    [][(/\ last'.op = "observe"
        /\ last'.target \in Targets
        /\ MapHas(spi[last'.inst].observations_, last'.target))
       => NoEffect]_vars

\* observe() has been called again for a target whose size the instance has
\* already broadcast, while no execution of the body was pending.
C13_Witness ==
    /\ last.op = "observe"
    /\ last.result = "noop"
    /\ last.asked = <<>>
    /\ host.hasElement
    /\ MapHas(spi[last.inst].observations_, last.target)
    /\ MapGet(spi[last.inst].observations_, last.target).broadcastWidth = 1
    /\ ~scheduled

\* C14: unobserve() of an element the instance's registry does not hold
\* changes nothing: no error, the registry, the controller's list and the
\* subscriptions stay, and removeObserver is not called.
C14_DeregisterUnknown ==
    [][(/\ last'.op = "unobserve"
        /\ last'.target \in Targets
        /\ ~MapHas(spi[last'.inst].observations_, last'.target))
       => NoEffect]_vars

\* unobserve() has been called on an instance with an empty registry while
\* the other instance keeps the controller connected.
C14_Witness ==
    /\ last.op = "unobserve"
    /\ last.result = "noop"
    /\ last.asked = <<>>
    /\ host.hasElement
    /\ last.target \in Targets
    /\ Len(spi[last.inst].observations_) = 0
    /\ controller.connected_
    /\ Len(controller.observers_) = 1


\* The broadcast dimensions of the observation the registry of the observer
\* holds for the target.
Broadcast(sp, observer, target) ==
    <<MapGet(sp[observer].observations_, target).broadcastWidth,
      MapGet(sp[observer].observations_, target).broadcastHeight>>

\* C15: the broadcast dimensions of an observation change only in the step
\* in which broadcastActive of its instance invokes the callback with an
\* entry for its target; observe, unobserve, gatherActive and the cycles in
\* which it is not active leave them as they are.
C15_BroadcastDimsFrame ==
    [][\A o \in Instances, t \in Targets :
        (/\ MapHas(spi[o].observations_, t)
         /\ MapHas(spi'[o].observations_, t)
         /\ Broadcast(spi', o, t) # Broadcast(spi, o, t))
        => (/\ pc = "broadcast"
            /\ pc' = "callback"
            /\ call'.observer = o
            /\ \E k \in 1..Len(call'.entries) :
                    /\ call'.entries[k].target = t
                    /\ call'.entries[k].contentRect.width = Broadcast(spi', o, t)[1]
                    /\ call'.entries[k].contentRect.height = Broadcast(spi', o, t)[2])]_vars

\* Both instances watch t1; the callback of A is running and the size is
\* stored with A's observation, while B's, gathered in the same cycle but not
\* yet broadcast, still has the initial one.
C15_Witness ==
    /\ pc = "callback"
    /\ call.observer = "A"
    /\ MapHas(spi["A"].observations_, "t1")
    /\ MapHas(spi["B"].observations_, "t1")
    /\ Broadcast(spi, "A", "t1") = <<1, 1>>
    /\ Broadcast(spi, "B", "t1") = <<0, 0>>
    /\ "B" \in gathered

\* C16: gatherActive stores the rectangle measured for every observation of
\* the registry, active or not, and the observation is active exactly when
\* the measured width or height differs from the broadcast one; another left
\* offset alone does not make it active.
C16_IsActive ==
    [][pc = "gather" =>
        LET o == controller.observers_[idx]
        IN  \A k \in 1..Len(spi[o].observations_) :
                LET before == spi[o].observations_[k]
                    after == spi'[o].observations_[k]
                    rect == elementRect[before.target]
                IN  /\ after.target = before.target
                    /\ after.contentRect_ = rect
                    /\ (\E a \in 1..Len(spi'[o].activeObservations_) :
                            spi'[o].activeObservations_[a].target = before.target)
                       <=> (rect.width # before.broadcastWidth
                                \/ rect.height # before.broadcastHeight)]_vars

\* t1 has moved without changing its size: gatherActive has stored the new
\* rectangle and the observation is not active.
C16_Witness ==
    /\ last.op = "GatherStep"
    /\ last.inst = "A"
    /\ MapHas(spi["A"].observations_, "t1")
    /\ MapGet(spi["A"].observations_, "t1").contentRect_.x = 1
    /\ elementRect["t1"].x = 1
    /\ Broadcast(spi, "A", "t1") = <<1, 1>>
    /\ ~hasActive(spi["A"])


\* a comes before b in the sequence s, which holds both.
Before(s, a, b) == indexOf(s, a) < indexOf(s, b)

\* C17: the controller's list keeps the order in which the instances were
\* added (a new one goes to the end, a removal leaves the others in place),
\* the active list of a cycle keeps the order of the controller's list, and
\* the broadcast pass invokes the callbacks in the order of the active list.
C17_RegistrationOrder ==
    /\ [][\A a, b \in Range(controller.observers_') :
            /\ (a \in Range(controller.observers_) /\ b \in Range(controller.observers_)
                    /\ Before(controller.observers_, a, b))
                => Before(controller.observers_', a, b)
            /\ (a \in Range(controller.observers_) /\ b \notin Range(controller.observers_))
                => Before(controller.observers_', a, b)]_vars
    /\ [](pc \in {"broadcast", "callback"} =>
            \A a, b \in Range(activeObservers) :
                Before(cycleObservers, a, b) =>
                    /\ Before(activeObservers, a, b)
                    /\ b \in visited => a \in visited
                    /\ (pc = "callback" /\ call.observer = a) => b \notin visited)

\* A was added before B, both are active, and the callback of B is running
\* after that of A.
C17_Witness ==
    /\ pc = "callback"
    /\ controller.observers_ = <<"A", "B">>
    /\ activeObservers = <<"A", "B">>
    /\ call.observer = "B"
    /\ visited = {"A", "B"}

\* The instance has no target registered and no active observation.
Disconnected(o) ==
    /\ Len(spi[o].observations_) = 0
    /\ Len(spi[o].activeObservations_) = 0

\* C18: disconnect() leaves the instance without registry, without active
\* observation and outside the controller's list; an instance in that state
\* stays in it until observe() is called on it, and while it is in it
\* broadcastActive does not invoke its callback, also when the instance is
\* still in the active list of the cycle in progress.
C18_DisconnectSilences ==
    /\ [][last'.op = "disconnect" =>
            (/\ Len(spi'[last'.inst].observations_) = 0
             /\ Len(spi'[last'.inst].activeObservations_) = 0
             /\ last'.inst \notin Range(controller.observers_'))]_vars
    /\ [][\A o \in Instances :
            (Disconnected(o) /\ ~(last'.op = "observe" /\ last'.inst = o)) =>
                (/\ spi'[o] = spi[o]
                 /\ ~(pc = "broadcast" /\ pc' = "callback" /\ call'.observer = o))]_vars

\* The callback of A has disconnected B, which was in the active list:
\* broadcastActive of B has found nothing to report.
C18_Witness ==
    /\ last.op = "BroadcastStep"
    /\ last.inst = "B"
    /\ last.result # "callback"
    /\ activeObservers \in {<<>>, <<"A", "B">>}
    /\ Len(spi["B"].observations_) = 0
    /\ Len(spi["A"].observations_) > 0


\* C19: when broadcastActive invokes the callback of an instance, every entry
\* it passes refers to a target the registry of the instance holds at that
\* moment.
C19_EntriesInRegistry ==
    [][(pc = "broadcast" /\ pc' = "callback") =>
        \A k \in 1..Len(call'.entries) :
            MapHas(spi'[call'.observer].observations_, call'.entries[k].target)]_vars


\* A throw has left the observer untold and nothing has changed since.
Untold(o) == epoch.phase = "dirty" /\ o \in epoch.stale

FirstCycle(sp, o) ==
    {k \in 1..Len(sp[o].observations_) : sp[o].observations_[k].gathers = 1}

\* The rectangle measured for the observation has a width or a height.
NonZero(ob) == ob.contentRect_.width # 0 \/ ob.contentRect_.height # 0

\* The size measured for the observation has been broadcast.
Told(ob) ==
    /\ ob.broadcastWidth = ob.contentRect_.width
    /\ ob.broadcastHeight = ob.contentRect_.height

\* No entry for an observation in its first cycle carries a 0 by 0 size.
NoEntryForZero ==
    [][(pc = "broadcast" /\ pc' = "callback") =>
        \A k \in FirstCycle(spi, call'.observer) :
            LET ob == spi[call'.observer].observations_[k]
            IN  (\E e \in 1..Len(call'.entries) :
                    /\ call'.entries[e].target = ob.target
                    /\ spi[call'.observer].activeObservations_[e].live)
                => NonZero(ob)]_vars

\* C21 as stated: when the first refresh cycle after observe(target) is over,
\* the entry for the target has been delivered if the size measured in that
\* cycle is not 0 by 0, and no entry is delivered if it is.
C21_Original ==
    /\ [][(pc # "idle" /\ pc' = "idle") =>
            \A o \in Range(cycleObservers) : \A k \in FirstCycle(spi', o) :
                NonZero(spi'[o].observations_[k]) => Told(spi'[o].observations_[k])]_vars
    /\ NoEntryForZero

\* C21 as amended: a new observation has the broadcast size 0 by 0, so the
\* gather pass of the first cycle after observe(target) makes it active
\* exactly when the measured size is not 0 by 0; its entry has been delivered
\* when that cycle ends without an exception, while a callback that throws
\* earlier in the pass leaves it to a later cycle; a 0 by 0 target gets no
\* entry.
C21_Amended ==
    /\ [](\A o \in Instances : \A k \in 1..Len(spi[o].observations_) :
            spi[o].observations_[k].gathers = 0 =>
                /\ spi[o].observations_[k].broadcastWidth = 0
                /\ spi[o].observations_[k].broadcastHeight = 0)
    /\ [][pc = "gather" =>
            LET o == controller.observers_[idx]
            IN  \A k \in 1..Len(spi[o].observations_) :
                    spi[o].observations_[k].gathers = 0 =>
                        /\ spi'[o].observations_[k].gathers = 1
                        /\ (\E a \in 1..Len(spi'[o].activeObservations_) :
                                spi'[o].activeObservations_[a].target
                                    = spi[o].observations_[k].target)
                           <=> (elementRect[spi[o].observations_[k].target].width # 0
                                \/ elementRect[spi[o].observations_[k].target].height # 0)]_vars
    /\ [][CycleEndsNormally =>
            \A o \in Range(cycleObservers) : \A k \in FirstCycle(spi', o) :
                NonZero(spi'[o].observations_[k]) => Told(spi'[o].observations_[k])]_vars
    /\ [][last'.op = "CallbackThrow" =>
            \A j \in (idx + 1)..Len(activeObservers) :
                \A k \in FirstCycle(spi', activeObservers[j]) :
                    NonZero(spi'[activeObservers[j]].observations_[k])
                        => ~Told(spi'[activeObservers[j]].observations_[k])]_vars
    /\ NoEntryForZero

\* The first cycle after A.observe(t1) and A.observe(t2) is over: the size of
\* t1, 1 by 1, has been broadcast, and t2, 0 by 0, has been measured without
\* an entry.
C21_Witness ==
    /\ pc = "idle"
    /\ last.op = "CallbackReturn"
    /\ last.inst = "A"
    /\ MapKeys(spi["A"].observations_) = {"t1", "t2"}
    /\ \A k \in 1..2 : spi["A"].observations_[k].gathers = 1
    /\ Broadcast(spi, "A", "t1") = <<1, 1>>
    /\ Broadcast(spi, "A", "t2") = <<0, 0>>
    /\ elementRect = InitialLayout

====
